---- MODULE Spec2Model ----
(***************************************************************************)
(* Groundwater dashboard: the recharge / draft estimation engine of        *)
(* pages/2_R_DSS.py and the per-year recharge of pages/1_Data_Analytics.py *)
(*                                                                         *)
(* Numbers.  The Python code computes in floats; here every number is an   *)
(* exact rational [n |-> numerator, d |-> denominator > 0] in lowest       *)
(* terms, so two equal quantities are equal records.  Rounding of binary   *)
(* floating point is not modelled.                                         *)
(***************************************************************************)
EXTENDS Integers, Sequences, FiniteSets, TLC

VARIABLES historical_df, analytics_df, cache, session_state, call

vars == <<historical_df, analytics_df, cache, session_state, call>>

----------------------------------------------------------------------------
(* Exact rational arithmetic *)

Abs(x) == IF x < 0 THEN -x ELSE x

RECURSIVE GCD(_, _)
GCD(a, b) == IF b = 0 THEN a ELSE GCD(b, a % b)

Rat(n, d) ==
    LET s == IF d < 0 THEN -1 ELSE 1
        g == GCD(Abs(n), Abs(d))
    IN  [n |-> (s * n) \div g, d |-> (s * d) \div g]

R(k) == [n |-> k, d |-> 1]

Zero == R(0)

RAdd(a, b) ==
    LET g == GCD(a.d, b.d)
    IN  Rat(a.n * (b.d \div g) + b.n * (a.d \div g), (a.d \div g) * b.d)

RNeg(a) == [n |-> -a.n, d |-> a.d]

RSub(a, b) == RAdd(a, RNeg(b))

RMul(a, b) ==
    LET g1 == GCD(Abs(a.n), b.d)
        g2 == GCD(Abs(b.n), a.d)
    IN  IF a.n = 0 \/ b.n = 0 THEN Zero
        ELSE Rat((a.n \div g1) * (b.n \div g2), (a.d \div g2) * (b.d \div g1))

RInv(a) == Rat(a.d, a.n)

RDiv(a, b) == RMul(a, RInv(b))

RLt(a, b) == a.n * b.d < b.n * a.d

RLe(a, b) == a.n * b.d <= b.n * a.d

RMax(a, b) == IF RLt(a, b) THEN b ELSE a

----------------------------------------------------------------------------
(* pages/2_R_DSS.py: core DSS calculation functions *)

calculate_recharge_wtf_per_yield(delta_h, area_ha, specific_yield) ==
    RMul(RDiv(RMul(delta_h, area_ha), specific_yield), Rat(1, 100000))

calculate_recharge_wtf_mm(delta_h, area_ha, specific_yield) ==
    RMul(RMul(RMul(delta_h, area_ha), specific_yield), Rat(1, 10000))

calculate_recharge_wtf(delta_h, area_ha, specific_yield) ==
    RMul(RMul(RMul(delta_h, area_ha), specific_yield), Rat(1, 100000))

calculate_recharge_rif_unclamped(rainfall_mm, area_ha, rfif) ==
    LET a == Rat(8, 100)
    IN  RMul(RDiv(RMul(RMul(rfif, area_ha), RSub(rainfall_mm, a)), R(1000)),
             Rat(1, 100000))

calculate_recharge_rif(rainfall_mm, area_ha, rfif) ==
    LET a == Rat(8, 100)
    IN  RMax(Zero,
             RMul(RDiv(RMul(RMul(rfif, area_ha), RSub(rainfall_mm, a)), R(1000)),
                  Rat(1, 100000)))

calculate_validated_recharge_band25(recharge_wtf, recharge_rif) ==
    IF recharge_rif = Zero THEN recharge_wtf
    ELSE LET pd_value == RMul(RDiv(RSub(recharge_wtf, recharge_rif), recharge_rif), R(100))
         IN  IF RLe(R(-25), pd_value) /\ RLe(pd_value, R(25)) THEN recharge_wtf
             ELSE IF RLt(pd_value, R(-25)) THEN RMul(Rat(8, 10), recharge_rif)
             ELSE RMul(Rat(12, 10), recharge_rif)

calculate_validated_recharge_zero_rif(recharge_wtf, recharge_rif) ==
    IF recharge_rif = Zero THEN recharge_rif
    ELSE LET pd_value == RMul(RDiv(RSub(recharge_wtf, recharge_rif), recharge_rif), R(100))
         IN  IF RLe(R(-20), pd_value) /\ RLe(pd_value, R(20)) THEN recharge_wtf
             ELSE IF RLt(pd_value, R(-20)) THEN RMul(Rat(8, 10), recharge_rif)
             ELSE RMul(Rat(12, 10), recharge_rif)

calculate_validated_recharge_swapped(recharge_wtf, recharge_rif) ==
    IF recharge_rif = Zero THEN recharge_wtf
    ELSE LET pd_value == RMul(RDiv(RSub(recharge_wtf, recharge_rif), recharge_rif), R(100))
         IN  IF RLe(R(-20), pd_value) /\ RLe(pd_value, R(20)) THEN recharge_wtf
             ELSE IF RLt(pd_value, R(-20)) THEN RMul(Rat(12, 10), recharge_rif)
             ELSE RMul(Rat(8, 10), recharge_rif)

calculate_validated_recharge(recharge_wtf, recharge_rif) ==
    IF recharge_rif = Zero THEN recharge_wtf
    ELSE LET pd_value == RMul(RDiv(RSub(recharge_wtf, recharge_rif), recharge_rif), R(100))
         IN  IF RLe(R(-20), pd_value) /\ RLe(pd_value, R(20)) THEN recharge_wtf
             ELSE IF RLt(pd_value, R(-20)) THEN RMul(Rat(8, 10), recharge_rif)
             ELSE RMul(Rat(12, 10), recharge_rif)

calculate_annual_draft(daily_pumping_m3) ==
    RDiv(RMul(daily_pumping_m3, R(365)), R(1000000000))

calculate_et_draft_exclusive(evaporation_mm_day, transpiration_mm_day, area_ha, latest_water_level_mbgl) ==
    LET area_m2 == RMul(area_ha, R(10000))
        evap    == RMul(RMul(RDiv(evaporation_mm_day, R(1000)), area_m2), R(365))
        transp  == RMul(RMul(RDiv(transpiration_mm_day, R(1000)), area_m2), R(365))
        total   == IF RLe(latest_water_level_mbgl, R(1)) THEN evap
                   ELSE IF RLe(latest_water_level_mbgl, Rat(35, 10)) THEN transp
                   ELSE Zero
    IN  RDiv(total, R(1000000000))

calculate_et_draft(evaporation_mm_day, transpiration_mm_day, area_ha, latest_water_level_mbgl) ==
    LET area_m2 == RMul(area_ha, R(10000))
        t0 == Zero
        t1 == IF RLe(latest_water_level_mbgl, R(1))
              THEN RAdd(t0, RMul(RMul(RDiv(evaporation_mm_day, R(1000)), area_m2), R(365)))
              ELSE t0
        t2 == IF RLe(latest_water_level_mbgl, Rat(35, 10))
              THEN RAdd(t1, RMul(RMul(RDiv(transpiration_mm_day, R(1000)), area_m2), R(365)))
              ELSE t1
    IN  RDiv(t2, R(1000000000))

calculate_net_groundwater_availability(annual_recharge_bcm, total_draft_bcm) ==
    RSub(annual_recharge_bcm, total_draft_bcm)

calculate_stage_of_extraction_sentinel100(total_draft_bcm, annual_recharge_bcm) ==
    IF RLe(annual_recharge_bcm, Zero) THEN R(100)
    ELSE RMul(RDiv(total_draft_bcm, annual_recharge_bcm), R(100))

calculate_stage_of_extraction_zero_only(total_draft_bcm, annual_recharge_bcm) ==
    IF annual_recharge_bcm = Zero THEN R(200)
    ELSE RMul(RDiv(total_draft_bcm, annual_recharge_bcm), R(100))

calculate_stage_of_extraction(total_draft_bcm, annual_recharge_bcm) ==
    IF RLe(annual_recharge_bcm, Zero) THEN R(200)
    ELSE RMul(RDiv(total_draft_bcm, annual_recharge_bcm), R(100))

get_recommendation_open70(stage) ==
    IF RLt(stage, R(70))
    THEN <<"SAFE: Groundwater extraction is within sustainable limits.", "green", "Safe">>
    ELSE IF RLe(R(70), stage) /\ RLe(stage, R(90))
    THEN <<"SEMI-CRITICAL: Caution is advised.", "orange", "Semi-critical">>
    ELSE IF RLt(R(90), stage) /\ RLe(stage, R(100))
    THEN <<"CRITICAL: High stress on resources.", "red", "Critical">>
    ELSE <<"OVER-EXPLOITED: Extraction exceeds recharge.", "darkred", "Over-Exploited">>

get_recommendation(stage) ==
    IF RLe(stage, R(70))
    THEN <<"SAFE: Groundwater extraction is within sustainable limits.", "green", "Safe">>
    ELSE IF RLt(R(70), stage) /\ RLe(stage, R(90))
    THEN <<"SEMI-CRITICAL: Caution is advised.", "orange", "Semi-critical">>
    ELSE IF RLt(R(90), stage) /\ RLe(stage, R(100))
    THEN <<"CRITICAL: High stress on resources.", "red", "Critical">>
    ELSE <<"OVER-EXPLOITED: Extraction exceeds recharge.", "darkred", "Over-Exploited">>

(* render_sustainability_assessment: the status of the stage once the      *)
(* project's demand is added to the draft.                                 *)
status_display_closed70(new_stage) ==
    IF RLe(new_stage, R(70)) THEN <<"Sustainable", "#32CD32">>
    ELSE IF RLe(R(70), new_stage) /\ RLe(new_stage, R(90)) THEN <<"Semi-critical", "#FFD700">>
    ELSE IF RLt(R(90), new_stage) /\ RLe(new_stage, R(100)) THEN <<"Critical", "#FFA500">>
    ELSE <<"Non-sustainable", "#FF0000">>

status_display_open90(new_stage) ==
    IF RLt(new_stage, R(70)) THEN <<"Sustainable", "#32CD32">>
    ELSE IF RLe(R(70), new_stage) /\ RLt(new_stage, R(90)) THEN <<"Semi-critical", "#FFD700">>
    ELSE IF RLe(R(90), new_stage) /\ RLe(new_stage, R(100)) THEN <<"Critical", "#FFA500">>
    ELSE <<"Non-sustainable", "#FF0000">>

status_display(new_stage) ==
    IF RLt(new_stage, R(70)) THEN <<"Sustainable", "#32CD32">>
    ELSE IF RLe(R(70), new_stage) /\ RLe(new_stage, R(90)) THEN <<"Semi-critical", "#FFD700">>
    ELSE IF RLt(R(90), new_stage) /\ RLe(new_stage, R(100)) THEN <<"Critical", "#FFA500">>
    ELSE <<"Non-sustainable", "#FF0000">>

render_sustainability_assessment_demand_off(final_recharge, final_draft, demand_mcm) ==
    LET final_net_availability ==
            calculate_net_groundwater_availability(final_recharge, final_draft)
        stage_after == calculate_stage_of_extraction(final_draft, final_recharge)
        projected_net_avail_mcm == RMul(final_net_availability, R(1000))
        net_avail_for_future_use_mcm == RMul(projected_net_avail_mcm, Rat(9975, 10000))
        new_draft_bcm == RSub(final_draft, RDiv(demand_mcm, R(1000)))
        new_stage == calculate_stage_of_extraction(new_draft_bcm, final_recharge)
    IN  [net_avail_for_future_use_mcm |-> net_avail_for_future_use_mcm,
         remaining_surplus |-> RMax(Zero, RSub(net_avail_for_future_use_mcm, demand_mcm)),
         new_draft_bcm |-> new_draft_bcm,
         new_stage |-> new_stage,
         status_display |-> status_display(new_stage)[1],
         color |-> status_display(new_stage)[2],
         stage_after |-> stage_after,
         category_before_project |-> get_recommendation(stage_after)[3],
         stage_increase |-> RSub(new_stage, stage_after)]

render_sustainability_assessment(final_recharge, final_draft, demand_mcm) ==
    LET final_net_availability ==
            calculate_net_groundwater_availability(final_recharge, final_draft)
        stage_after == calculate_stage_of_extraction(final_draft, final_recharge)
        projected_net_avail_mcm == RMul(final_net_availability, R(1000))
        net_avail_for_future_use_mcm == RMul(projected_net_avail_mcm, Rat(9975, 10000))
        new_draft_bcm == RAdd(final_draft, RDiv(demand_mcm, R(1000)))
        new_stage == calculate_stage_of_extraction(new_draft_bcm, final_recharge)
    IN  [net_avail_for_future_use_mcm |-> net_avail_for_future_use_mcm,
         remaining_surplus |-> RMax(Zero, RSub(net_avail_for_future_use_mcm, demand_mcm)),
         new_draft_bcm |-> new_draft_bcm,
         new_stage |-> new_stage,
         status_display |-> status_display(new_stage)[1],
         color |-> status_display(new_stage)[2],
         stage_after |-> stage_after,
         category_before_project |-> get_recommendation(stage_after)[3],
         stage_increase |-> RSub(new_stage, stage_after)]

----------------------------------------------------------------------------
(* The well series.                                                        *)
(* A DataFrame is a sequence of rows ordered as the frame is; a row stands *)
(* for n samples carrying the same date and the same value (the source     *)
(* lets duplicate readings through), so len(df) is the sum of the n.       *)

None == [kind |-> "None"]

BaseColumns == {"date", "value"}

DataFrame(rows) == [kind |-> "DataFrame", rows |-> rows, columns |-> BaseColumns]

(* df['year'] = df['date'].dt.year; df['month'] = df['date'].dt.month: the  *)
(* frame the caller passed gains two columns.                              *)
assign_year_month(df) == [df EXCEPT !.columns = @ \cup {"year", "month"}]

(* the caller's frame once get_monsoon_rise has returned *)
df_after_get_monsoon_rise(df) ==
    IF df = None \/ df.rows = <<>> THEN df ELSE assign_year_month(df)

NaN == [n |-> 0, d |-> 0]

isna(x) == x = NaN

DateKey(date) == date.year * 10000 + date.month * 100 + date.day

RECURSIVE SumN(_)
SumN(rows) == IF rows = <<>> THEN 0 ELSE Head(rows).n + SumN(Tail(rows))

RECURSIVE SumValue(_)
SumValue(rows) ==
    IF rows = <<>> THEN Zero
    ELSE RAdd(RMul(Head(rows).value, R(Head(rows).n)), SumValue(Tail(rows)))

len(rows) == SumN(rows)

mean(rows) == IF len(rows) = 0 THEN NaN ELSE RDiv(SumValue(rows), R(len(rows)))

min_value(rows) ==
    CHOOSE v \in {rows[i].value : i \in DOMAIN rows} :
        \A j \in DOMAIN rows : RLe(v, rows[j].value)

max_value(rows) ==
    CHOOSE v \in {rows[i].value : i \in DOMAIN rows} :
        \A j \in DOMAIN rows : RLe(rows[j].value, v)

(* sort_values(by='date'): an insertion sort that keeps rows of equal date *)
(* in reply order; replies range over every order, so each order of equal  *)
(* dates that pandas may produce is a frame some reply yields.             *)
RECURSIVE insert_by_date(_, _)
insert_by_date(sorted, row) ==
    IF sorted = <<>> THEN <<row>>
    ELSE IF DateKey(sorted[Len(sorted)].date) <= DateKey(row.date)
    THEN Append(sorted, row)
    ELSE Append(insert_by_date(SubSeq(sorted, 1, Len(sorted) - 1), row),
                sorted[Len(sorted)])

sort_values_reply_order(data) == data

RECURSIVE sort_values(_)
sort_values(data) ==
    IF data = <<>> THEN <<>>
    ELSE insert_by_date(sort_values(SubSeq(data, 1, Len(data) - 1)), data[Len(data)])

(* pages/2_R_DSS.py get_full_well_history: what the page gets for a reply *)
get_full_well_history(response) ==
    IF response.kind \in {"request_error", "http_error", "malformed"} THEN None
    ELSE IF response.kind = "error_payload" \/ response.data = <<>> THEN None
    ELSE DataFrame(sort_values(response.data))

(* pages/1_Data_Analytics.py get_full_well_history *)
get_full_well_history_analytics(response) ==
    IF response.kind \in {"request_error", "http_error", "malformed"} THEN None
    ELSE IF response.kind = "error_payload" THEN None
    ELSE IF response.data = <<>> THEN None
    ELSE DataFrame(sort_values(response.data))

last_year_of(rows) ==
    CHOOSE y \in {rows[i].date.year : i \in DOMAIN rows} :
        \A j \in DOMAIN rows : rows[j].date.year <= y

SelectMonth(rows, year, month) ==
    SelectSeq(rows, LAMBDA r : r.date.year = year /\ r.date.month = month)

get_monsoon_rise_unclamped(df) ==
    IF df = None \/ df.rows = <<>> THEN <<Zero, Zero>>
    ELSE LET rows == df.rows
             last_year == last_year_of(rows)
             pre_monsoon_level == mean(SelectMonth(rows, last_year, 5))
             post_monsoon_level == mean(SelectMonth(rows, last_year, 11))
         IN  IF isna(pre_monsoon_level) \/ isna(post_monsoon_level)
             THEN <<Zero, rows[Len(rows)].value>>
             ELSE <<RSub(pre_monsoon_level, post_monsoon_level), rows[Len(rows)].value>>

get_monsoon_rise(df) ==
    IF df = None \/ df.rows = <<>> THEN <<Zero, Zero>>
    ELSE LET rows == df.rows
             last_year == last_year_of(rows)
             pre_monsoon_level == mean(SelectMonth(rows, last_year, 5))
             post_monsoon_level == mean(SelectMonth(rows, last_year, 11))
         IN  IF isna(pre_monsoon_level) \/ isna(post_monsoon_level)
             THEN <<Zero, rows[Len(rows)].value>>
             ELSE <<RMax(Zero, RSub(pre_monsoon_level, post_monsoon_level)),
                    rows[Len(rows)].value>>

(* pages/2_R_DSS.py calculate_decline_rate.                                *)
(* date.toordinal(): the day number of a date, 0001-01-01 being day 1.     *)
IsLeap(year) == year % 4 = 0 /\ (year % 100 # 0 \/ year % 400 = 0)

DaysBeforeYear(year) ==
    LET y == year - 1 IN y * 365 + (y \div 4) - (y \div 100) + (y \div 400)

DaysBeforeMonth(year, month) ==
    <<0, 31, 59, 90, 120, 151, 181, 212, 243, 273, 304, 334>>[month]
        + (IF month > 2 /\ IsLeap(year) THEN 1 ELSE 0)

toordinal(date) ==
    DaysBeforeYear(date.year) + DaysBeforeMonth(date.year, date.month) + date.day

RECURSIVE SumX(_, _)
SumX(rows, x0) ==
    IF rows = <<>> THEN 0
    ELSE Head(rows).n * (toordinal(Head(rows).date) - x0) + SumX(Tail(rows), x0)

RECURSIVE SumXX(_, _)
SumXX(rows, x0) ==
    IF rows = <<>> THEN 0
    ELSE LET dx == toordinal(Head(rows).date) - x0
         IN  Head(rows).n * dx * dx + SumXX(Tail(rows), x0)

RECURSIVE SumXY(_, _)
SumXY(rows, x0) ==
    IF rows = <<>> THEN Zero
    ELSE LET dx == toordinal(Head(rows).date) - x0
         IN  RAdd(RMul(R(Head(rows).n * dx), Head(rows).value), SumXY(Tail(rows), x0))

(* np.polyfit(x, y, 1)[0]: the slope of the least-squares line, computed   *)
(* on the ordinals taken relative to the first one (the slope does not     *)
(* depend on the origin).  When every sample has the same ordinal x the    *)
(* system has rank 1 and lstsq returns its minimum-norm solution on the    *)
(* scaled columns, whose slope is mean(y) / (2 x).                         *)
polyfit_slope(rows) ==
    LET x0 == toordinal(rows[1].date)
        N == len(rows)
        den == N * SumXX(rows, x0) - SumX(rows, x0) * SumX(rows, x0)
        num == RSub(RMul(R(N), SumXY(rows, x0)), RMul(R(SumX(rows, x0)), SumValue(rows)))
    IN  IF den = 0 THEN RDiv(mean(rows), R(2 * x0))
        ELSE RDiv(num, R(den))

MinTotal == 12
MinDrySeason == 2

dry_season_df(rows) ==
    LET last_year == last_year_of(rows)
    IN  SelectSeq(rows, LAMBDA r : \/ (r.date.year = last_year - 1 /\ r.date.month >= 10)
                                  \/ (r.date.year = last_year /\ r.date.month <= 5))

(* the caller's frame once calculate_decline_rate has returned *)
df_after_calculate_decline_rate(df) ==
    IF df = None \/ len(df.rows) < MinTotal THEN df ELSE assign_year_month(df)

calculate_decline_rate_unclamped(df) ==
    IF df = None \/ len(df.rows) < MinTotal THEN None
    ELSE IF len(dry_season_df(df.rows)) < MinDrySeason THEN None
    ELSE polyfit_slope(dry_season_df(df.rows))

calculate_decline_rate(df) ==
    IF df = None \/ len(df.rows) < MinTotal THEN None
    ELSE IF len(dry_season_df(df.rows)) < MinDrySeason THEN None
    ELSE LET slope == polyfit_slope(dry_season_df(df.rows))
         IN  IF RLt(Zero, slope) THEN slope ELSE Zero

(* pages/2_R_DSS.py, main flow and render_prediction_section: the forecast *)

Unbound == [kind |-> "unbound"]

delta_h_forecast_annual(final_net_availability, area, specific_yield) ==
    RDiv(RMul(final_net_availability, R(1000000000)),
         RMul(RMul(area, R(10000)), specific_yield))

forecasted_level_main(df, latest_level, final_net_availability, area, specific_yield) ==
    IF df # None /\ df.rows # <<>>
    THEN IF RLt(Zero, area) /\ RLt(Zero, specific_yield)
         THEN RSub(latest_level,
                   RDiv(delta_h_forecast_annual(final_net_availability, area, specific_yield), R(4)))
         ELSE latest_level
    ELSE Unbound

forecasted_level_added(latest_level, final_net_availability, area, specific_yield, duration_months) ==
    IF RLt(Zero, area) /\ RLt(Zero, specific_yield)
    THEN RAdd(latest_level,
              RMul(RDiv(delta_h_forecast_annual(final_net_availability, area, specific_yield), R(12)),
                   R(duration_months)))
    ELSE latest_level

forecasted_level(latest_level, final_net_availability, area, specific_yield, duration_months) ==
    IF RLt(Zero, area) /\ RLt(Zero, specific_yield)
    THEN RSub(latest_level,
              RMul(RDiv(delta_h_forecast_annual(final_net_availability, area, specific_yield), R(12)),
                   R(duration_months)))
    ELSE latest_level

----------------------------------------------------------------------------
(* pages/1_Data_Analytics.py: calculate_annual_recharge *)

MinSamples == 90

hydro_year_late(date) == IF date.month > 6 THEN date.year ELSE date.year - 1

hydro_year(date) == IF date.month >= 6 THEN date.year ELSE date.year - 1

year_label(year) == ToString(year) \o "-" \o ToString(year + 1)

group_of(rows, year) == SelectSeq(rows, LAMBDA r : hydro_year(r.date) = year)

group_entry_midrange(group, year, sy) ==
    IF len(group) < MinSamples THEN <<>>
    ELSE LET peak_level == min_value(group)
             lowest_level == max_value(group)
             dh == RSub(lowest_level, peak_level)
         IN  IF RLt(Zero, dh)
             THEN << [Year |-> year_label(year),
                      Recharge_m |-> RMul(sy, dh),
                      Avg_Water_Level_m |-> RDiv(RAdd(peak_level, lowest_level), R(2))] >>
             ELSE <<>>

group_entry(group, year, sy) ==
    IF len(group) < MinSamples THEN <<>>
    ELSE LET peak_level == min_value(group)
             lowest_level == max_value(group)
             dh == RSub(lowest_level, peak_level)
         IN  IF RLt(Zero, dh)
             THEN << [Year |-> year_label(year),
                      Recharge_m |-> RMul(sy, dh),
                      Avg_Water_Level_m |-> mean(group)] >>
             ELSE <<>>

RECURSIVE recharge_data(_, _, _)
recharge_data(rows, years, sy) ==
    IF years = {} THEN <<>>
    ELSE LET year == CHOOSE y \in years : \A z \in years : y <= z
         IN  group_entry(group_of(rows, year), year, sy)
             \o recharge_data(rows, years \ {year}, sy)

calculate_annual_recharge(df, sy) ==
    IF df = None \/ df.rows = <<>> THEN <<>>
    ELSE recharge_data(df.rows, {hydro_year(df.rows[i].date) : i \in DOMAIN df.rows}, sy)

----------------------------------------------------------------------------
(* Bounds and input sets *)

MaxRecharge == 7
MaxStageFives == 41
MaxDraft == 6
MaxLevelHalves == 8
MaxRowsDSS == 3
MaxRowsAnalytics == 4

RechargeGrid == {Rat(k, 1000) : k \in (-MaxRecharge)..MaxRecharge}
StageGrid ==
    {R(5 * k) : k \in 0..MaxStageFives}
    \cup {Rat(2 * b + e, 2) : b \in {70, 90, 100}, e \in {-1, 1}}
DraftGrid == {Rat(k, 1000) : k \in 0..MaxDraft}
LevelGrid == {Rat(k, 2) : k \in 0..MaxLevelHalves}

Evaporations == {Rat(5, 10), R(3)}
Transpirations == {Rat(1, 10), R(2)}
Areas == {Zero, R(1000), R(10000)}
Rainfalls == {Zero, Rat(8, 100), R(10), R(1200), R(3000)}
Rfifs == {Rat(-15, 100), Zero, Rat(5, 100), Rat(15, 100), Rat(30, 100)}
DeltaHs == {Rat(-1, 2), Zero, Rat(1, 2), R(1), R(3)}
SpecificYields == {Rat(1, 100), Rat(12, 100), Rat(30, 100)}

(* The area and specific-yield sliders never give 0; the pairs with a 0    *)
(* exercise the fallback branch of the forecast.                           *)
NetAvailabilities == {Rat(-12, 1000), Zero, Rat(12, 1000)}
ForecastAreaSy == {<<R(10000), Rat(12, 100)>>, <<Zero, Rat(12, 100)>>, <<R(10000), Zero>>}
Durations == {1, 3, 12}

SyAnalytics == {Rat(5, 100), Rat(16, 100)}

Years == {2022, 2023}
Months == {5, 6, 11}
Days == {15}
Values == {R(2), R(5)}
Counts == {MinSamples \div 2 - 1, MinSamples \div 2}

RowTypes == [date : [year : Years, month : Months, day : Days], value : Values, n : Counts]

FailureKinds == {"request_error", "http_error", "malformed", "error_payload"}

Reply(kind, data) == [kind |-> kind, data |-> data]

----------------------------------------------------------------------------
(* State machine *)

Init ==
    /\ historical_df = None
    /\ analytics_df = None
    /\ cache = {}
    /\ session_state = [k \in {} |-> Zero]
    /\ call = [fn |-> "none"]

(* The pure calculation functions, applied to inputs of the grids *)

RechargeWtf ==
    /\ \E delta_h \in DeltaHs, area_ha \in Areas, specific_yield \in SpecificYields :
         call' = [fn |-> "calculate_recharge_wtf", delta_h |-> delta_h, area_ha |-> area_ha,
                  specific_yield |-> specific_yield,
                  ret |-> calculate_recharge_wtf(delta_h, area_ha, specific_yield)]
    /\ UNCHANGED <<historical_df, analytics_df, cache, session_state>>

RechargeRif ==
    /\ \E rainfall_mm \in Rainfalls, area_ha \in Areas, rfif \in Rfifs :
         call' = [fn |-> "calculate_recharge_rif", rainfall_mm |-> rainfall_mm,
                  area_ha |-> area_ha, rfif |-> rfif,
                  ret |-> calculate_recharge_rif(rainfall_mm, area_ha, rfif)]
    /\ UNCHANGED <<historical_df, analytics_df, cache, session_state>>

ValidatedRecharge ==
    /\ \E recharge_wtf \in RechargeGrid, recharge_rif \in RechargeGrid :
         call' = [fn |-> "calculate_validated_recharge", recharge_wtf |-> recharge_wtf,
                  recharge_rif |-> recharge_rif,
                  ret |-> calculate_validated_recharge(recharge_wtf, recharge_rif)]
    /\ UNCHANGED <<historical_df, analytics_df, cache, session_state>>

EtDraft ==
    /\ \E e \in Evaporations, t \in Transpirations, area_ha \in Areas \ {Zero}, level \in LevelGrid :
         call' = [fn |-> "calculate_et_draft", evaporation_mm_day |-> e,
                  transpiration_mm_day |-> t, area_ha |-> area_ha,
                  latest_water_level_mbgl |-> level,
                  ret |-> calculate_et_draft(e, t, area_ha, level)]
    /\ UNCHANGED <<historical_df, analytics_df, cache, session_state>>

StageOfExtraction ==
    /\ \E total_draft_bcm \in DraftGrid, annual_recharge_bcm \in RechargeGrid :
         call' = [fn |-> "calculate_stage_of_extraction", total_draft_bcm |-> total_draft_bcm,
                  annual_recharge_bcm |-> annual_recharge_bcm,
                  ret |-> calculate_stage_of_extraction(total_draft_bcm, annual_recharge_bcm)]
    /\ UNCHANGED <<historical_df, analytics_df, cache, session_state>>

Recommendation ==
    /\ \E stage \in StageGrid :
         call' = [fn |-> "get_recommendation", stage |-> stage, ret |-> get_recommendation(stage)]
    /\ UNCHANGED <<historical_df, analytics_df, cache, session_state>>

AssessmentRecharges == {Zero, Rat(1, 100)}
AssessmentDrafts == {RDiv(s, R(10000)) : s \in StageGrid}
Demands == {Zero, Rat(1, 2), R(1)}

SustainabilityAssessment ==
    /\ \E final_recharge \in AssessmentRecharges, final_draft \in AssessmentDrafts,
          demand_mcm \in Demands :
         call' = [fn |-> "render_sustainability_assessment",
                  final_recharge |-> final_recharge, final_draft |-> final_draft,
                  demand_mcm |-> demand_mcm,
                  out |-> render_sustainability_assessment(final_recharge, final_draft,
                                                           demand_mcm)]
    /\ UNCHANGED <<historical_df, analytics_df, cache, session_state>>

Next ==
    \/ RechargeWtf
    \/ RechargeRif
    \/ ValidatedRecharge
    \/ EtDraft
    \/ StageOfExtraction
    \/ Recommendation
    \/ SustainabilityAssessment

Spec == Init /\ [][Next]_vars

(* The DSS page: the history is fetched once per well (st.cache_data) and  *)
(* every run derives the monsoon rise from it, then renders the forecast.  *)

FetchDSS(maxrows, rowtypes) ==
    /\ "dss" \notin cache
    /\ \/ \E kind \in FailureKinds :
              /\ historical_df' = get_full_well_history(Reply(kind, <<>>))
              /\ call' = [fn |-> "get_full_well_history", reply_kind |-> kind, reply_rows |-> 0]
       \/ \E k \in 0..maxrows : \E data \in [1..k -> rowtypes] :
              /\ historical_df' = get_full_well_history(Reply("data", data))
              /\ call' = [fn |-> "get_full_well_history", reply_kind |-> "data",
                          reply_rows |-> Len(data)]
    /\ cache' = cache \cup {"dss"}
    /\ UNCHANGED <<analytics_df, session_state>>

FetchHistoryDSS == FetchDSS(MaxRowsDSS, RowTypes)

MonsoonRise ==
    /\ "dss" \in cache
    /\ call' = [fn |-> "get_monsoon_rise", ret |-> get_monsoon_rise(historical_df)]
    /\ historical_df' = df_after_get_monsoon_rise(historical_df)
    /\ UNCHANGED <<analytics_df, cache, session_state>>

PredictionSection ==
    /\ "dss" \in cache
    /\ call.fn = "get_monsoon_rise"
    /\ \E net \in NetAvailabilities, as \in ForecastAreaSy, duration_months \in Durations :
         LET latest_level == get_monsoon_rise(historical_df)[2]
         IN  call' = [fn |-> "render_prediction_section",
                      latest_level |-> latest_level,
                      final_net_availability |-> net,
                      area |-> as[1],
                      specific_yield |-> as[2],
                      duration_months |-> duration_months,
                      forecasted_level |->
                          forecasted_level(latest_level, net, as[1], as[2], duration_months),
                      forecasted_level_main |->
                          forecasted_level_main(historical_df, latest_level, net, as[1], as[2])]
    /\ UNCHANGED <<historical_df, analytics_df, cache, session_state>>

NextDSS ==
    \/ FetchHistoryDSS
    \/ MonsoonRise
    \/ PredictionSection

SpecDSS == Init /\ [][NextDSS]_vars

(* The Data Analytics page *)

FetchHistoryAnalytics ==
    /\ "analytics" \notin cache
    /\ \/ \E kind \in FailureKinds :
              /\ analytics_df' = get_full_well_history_analytics(Reply(kind, <<>>))
              /\ call' = [fn |-> "get_full_well_history", reply_kind |-> kind, reply_rows |-> 0]
       \/ \E k \in 0..MaxRowsAnalytics : \E data \in [1..k -> RowTypes] :
              /\ analytics_df' = get_full_well_history_analytics(Reply("data", data))
              /\ call' = [fn |-> "get_full_well_history", reply_kind |-> "data",
                          reply_rows |-> Len(data)]
    /\ cache' = cache \cup {"analytics"}
    /\ UNCHANGED <<historical_df, session_state>>

AnnualRecharge ==
    /\ "analytics" \in cache
    /\ analytics_df # None /\ analytics_df.rows # <<>>
    /\ \E sy \in SyAnalytics :
         call' = [fn |-> "calculate_annual_recharge", sy |-> sy,
                  ret |-> calculate_annual_recharge(analytics_df, sy)]
    /\ UNCHANGED <<historical_df, analytics_df, cache, session_state>>

NextAnalytics ==
    \/ FetchHistoryAnalytics
    \/ AnnualRecharge

SpecAnalytics == Init /\ [][NextAnalytics]_vars

----------------------------------------------------------------------------
(* Properties *)

PercentDeviation(wtf, rif) == RMul(RDiv(RSub(wtf, rif), rif), R(100))

(* C1: for rif # 0, calculate_validated_recharge returns wtf when the      *)
(* percent deviation pd = (wtf - rif) / rif * 100 is within [-20, 20]      *)
(* (both ends included), 0.8 * rif when pd < -20 and 1.2 * rif when        *)
(* pd > 20; the result is one of wtf, 0.8 * rif, 1.2 * rif.                *)
C1_ValidatedRechargeBand ==
    (call.fn = "calculate_validated_recharge" /\ call.recharge_rif # Zero) =>
        LET wtf == call.recharge_wtf
            rif == call.recharge_rif
            pd  == PercentDeviation(wtf, rif)
        IN  /\ (RLe(R(-20), pd) /\ RLe(pd, R(20))) => call.ret = wtf
            /\ RLt(pd, R(-20)) => call.ret = RMul(Rat(4, 5), rif)
            /\ RLt(R(20), pd) => call.ret = RMul(Rat(6, 5), rif)
            /\ call.ret \in {wtf, RMul(Rat(4, 5), rif), RMul(Rat(6, 5), rif)}

C1_Witness ==
    /\ call.fn = "calculate_validated_recharge"
    /\ call.recharge_rif # Zero
    /\ RLt(PercentDeviation(call.recharge_wtf, call.recharge_rif), R(-20))
    /\ call.ret = RMul(Rat(4, 5), call.recharge_rif)
    /\ call.ret # call.recharge_wtf

(* C2: get_recommendation partitions the stage values into four bands:     *)
(* stage <= 70 Safe, 70 < stage <= 90 Semi-critical, 90 < stage <= 100     *)
(* Critical, stage > 100 Over-Exploited; 70, 90 and 100 belong to the      *)
(* lower band.                                                             *)
C2_RecommendationBands ==
    call.fn = "get_recommendation" =>
        LET stage == call.stage
            category == call.ret[3]
        IN  /\ category \in {"Safe", "Semi-critical", "Critical", "Over-Exploited"}
            /\ category = "Safe" <=> RLe(stage, R(70))
            /\ category = "Semi-critical" <=> (RLt(R(70), stage) /\ RLe(stage, R(90)))
            /\ category = "Critical" <=> (RLt(R(90), stage) /\ RLe(stage, R(100)))
            /\ category = "Over-Exploited" <=> RLt(R(100), stage)

C2_Witness ==
    /\ call.fn = "get_recommendation"
    /\ call.stage = R(70)
    /\ call.ret[3] = "Safe"

(* C3: calculate_stage_of_extraction returns 200 when recharge <= 0 and    *)
(* 100 * draft / recharge when recharge > 0, hence 0 for draft = 0 and     *)
(* recharge > 0.                                                           *)
C3_StageOfExtraction ==
    call.fn = "calculate_stage_of_extraction" =>
        LET draft == call.total_draft_bcm
            recharge == call.annual_recharge_bcm
        IN  /\ RLe(recharge, Zero) => call.ret = R(200)
            /\ RLt(Zero, recharge) => call.ret = RDiv(RMul(R(100), draft), recharge)
            /\ (draft = Zero /\ RLt(Zero, recharge)) => call.ret = Zero

C3_Witness ==
    /\ call.fn = "calculate_stage_of_extraction"
    /\ RLt(call.annual_recharge_bcm, Zero)
    /\ call.total_draft_bcm = Zero
    /\ call.ret = R(200)

EtTerm(rate_mm_day, area_ha) ==
    RMul(RMul(RMul(RDiv(rate_mm_day, R(1000)), area_ha), R(10000)), R(365))

(* C4: calculate_et_draft is (evaporation term + transpiration term) / 1e9 *)
(* when latest_level <= 1.0, transpiration term / 1e9 when                 *)
(* 1.0 < latest_level <= 3.5, and 0 when latest_level > 3.5, each term     *)
(* being (rate / 1000) * area_ha * 10000 * 365.                            *)
C4_EtDraftGates ==
    call.fn = "calculate_et_draft" =>
        LET level == call.latest_water_level_mbgl
            e == EtTerm(call.evaporation_mm_day, call.area_ha)
            t == EtTerm(call.transpiration_mm_day, call.area_ha)
        IN  /\ RLe(level, R(1)) => call.ret = RDiv(RAdd(e, t), R(1000000000))
            /\ (RLt(R(1), level) /\ RLe(level, Rat(7, 2))) => call.ret = RDiv(t, R(1000000000))
            /\ RLt(Rat(7, 2), level) => call.ret = Zero

C4_Witness ==
    /\ call.fn = "calculate_et_draft"
    /\ call.latest_water_level_mbgl = R(1)
    /\ call.ret = RDiv(RAdd(EtTerm(call.evaporation_mm_day, call.area_ha),
                            EtTerm(call.transpiration_mm_day, call.area_ha)),
                       R(1000000000))
    /\ call.ret # RDiv(EtTerm(call.transpiration_mm_day, call.area_ha), R(1000000000))

(* C5: calculate_recharge_rif equals                                       *)
(* max(0, rfif * area_ha * (rainfall_mm - 0.08) / 1000) * 1e-5, is never   *)
(* negative, is 0 for rainfall_mm <= 0.08 with non-negative rfif and area, *)
(* and is 0.0179988 for rainfall 1200, area 10000, rfif 0.15.              *)
C5_RechargeRif ==
    call.fn = "calculate_recharge_rif" =>
        LET inner == RDiv(RMul(call.rfif, RMul(call.area_ha, RSub(call.rainfall_mm, Rat(2, 25)))),
                          R(1000))
        IN  /\ call.ret = RDiv(RMax(Zero, inner), R(100000))
            /\ RLe(Zero, call.ret)
            /\ (RLe(Zero, call.rfif) /\ RLe(Zero, call.area_ha)
                  /\ RLe(call.rainfall_mm, Rat(2, 25))) => call.ret = Zero
            /\ (call.rainfall_mm = R(1200) /\ call.area_ha = R(10000)
                  /\ call.rfif = Rat(3, 20)) => call.ret = Rat(179988, 10000000)

C5_Witness ==
    /\ call.fn = "calculate_recharge_rif"
    /\ call.rainfall_mm = Zero
    /\ call.area_ha = R(10000)
    /\ call.rfif = Rat(3, 20)
    /\ call.ret = Zero

(* C6: calculate_recharge_wtf equals delta_h * area_ha * specific_yield *  *)
(* 1e-5; it is 0.006 for delta_h 0.5, area 10000, sy 0.12 and 0 for        *)
(* delta_h = 0.                                                            *)
C6_RechargeWtf ==
    call.fn = "calculate_recharge_wtf" =>
        /\ call.ret = RDiv(RMul(call.delta_h, RMul(call.area_ha, call.specific_yield)),
                           R(100000))
        /\ (call.delta_h = Rat(1, 2) /\ call.area_ha = R(10000)
              /\ call.specific_yield = Rat(3, 25)) => call.ret = Rat(6, 1000)
        /\ call.delta_h = Zero => call.ret = Zero

C6_Witness ==
    /\ call.fn = "calculate_recharge_wtf"
    /\ call.delta_h = Rat(1, 2)
    /\ call.area_ha = R(10000)
    /\ call.specific_yield = Rat(3, 25)
    /\ call.ret = Rat(6, 1000)

----------------------------------------------------------------------------
(* calculate_decline_rate applied to the fetched history.  A row stands    *)
(* for 1 or MinTotal - 1 samples, so that the total reaches MinTotal on    *)
(* either side; months 5 and 10 lie in the dry-season window, month 6 does *)
(* not.                                                                    *)
MaxRowsDecline == 3

DeclineRowTypes ==
    [date : [year : Years, month : {5, 6, 10}, day : Days],
     value : Values, n : {1, MinTotal - 1}]

FetchHistoryDecline == FetchDSS(MaxRowsDecline, DeclineRowTypes)

DeclineRate ==
    /\ "dss" \in cache
    /\ call' = [fn |-> "calculate_decline_rate", ret |-> calculate_decline_rate(historical_df)]
    /\ historical_df' = df_after_calculate_decline_rate(historical_df)
    /\ UNCHANGED <<analytics_df, cache, session_state>>

NextDecline ==
    \/ FetchHistoryDecline
    \/ DeclineRate

SpecDecline == Init /\ [][NextDecline]_vars

(* C7: with area > 0 and specific yield > 0 the forecast for h months is   *)
(* latest_level - delta_h_annual * (h / 12), where delta_h_annual =        *)
(* net * 1e9 / (area * 10000 * sy); otherwise it is latest_level.  A       *)
(* positive net availability gives a forecast below latest_level, a        *)
(* negative one a forecast above it, and the 3-month main forecast equals  *)
(* the custom forecast at h = 3.                                           *)
C7_Forecast ==
    call.fn = "render_prediction_section" =>
        LET net == call.final_net_availability
            positive == RLt(Zero, call.area) /\ RLt(Zero, call.specific_yield)
            annual == RDiv(RMul(net, R(1000000000)),
                           RMul(call.area, RMul(R(10000), call.specific_yield)))
        IN  /\ positive => call.forecasted_level =
                             RSub(call.latest_level, RMul(annual, Rat(call.duration_months, 12)))
            /\ ~positive => call.forecasted_level = call.latest_level
            /\ (positive /\ RLt(Zero, net)) => RLt(call.forecasted_level, call.latest_level)
            /\ (positive /\ RLt(net, Zero)) => RLt(call.latest_level, call.forecasted_level)
            /\ (call.duration_months = 3 /\ call.forecasted_level_main # Unbound)
                  => call.forecasted_level_main = call.forecasted_level

C7_Witness ==
    /\ call.fn = "render_prediction_section"
    /\ RLt(Zero, call.area) /\ RLt(Zero, call.specific_yield)
    /\ RLt(Zero, call.final_net_availability)
    /\ call.duration_months = 3
    /\ call.forecasted_level_main = call.forecasted_level
    /\ RLt(call.forecasted_level, call.latest_level)

RECURSIVE CountOf(_, _)
CountOf(rows, S) ==
    IF S = {} THEN 0
    ELSE LET i == CHOOSE j \in S : TRUE IN rows[i].n + CountOf(rows, S \ {i})

RECURSIVE TotalOf(_, _)
TotalOf(rows, S) ==
    IF S = {} THEN Zero
    ELSE LET i == CHOOSE j \in S : TRUE
         IN  RAdd(RMul(R(rows[i].n), rows[i].value), TotalOf(rows, S \ {i}))

InHydroYear(rows, y) ==
    {i \in DOMAIN rows : \/ rows[i].date.month >= 6 /\ rows[i].date.year = y
                         \/ rows[i].date.month < 6 /\ rows[i].date.year = y + 1}

Spread(rows, S) == \E i \in S, j \in S : RLt(rows[i].value, rows[j].value)

HydroYears == Years \cup {y - 1 : y \in Years}

EntriesFor(ret, y) ==
    {i \in DOMAIN ret : ret[i].Year = ToString(y) \o "-" \o ToString(y + 1)}

(* C8: a sample belongs to hydrological year = calendar year if its month  *)
(* is >= 6, else calendar year - 1; a hydrological year appears in the     *)
(* output only if it has at least 90 samples, 90 samples are enough, and   *)
(* a year of 89 samples is left out whatever its values.                   *)
C8_HydroYearThreshold ==
    call.fn = "calculate_annual_recharge" =>
        \A y \in HydroYears :
            LET rows == analytics_df.rows
                S == InHydroYear(rows, y)
            IN  /\ EntriesFor(call.ret, y) # {} => CountOf(rows, S) >= 90
                /\ (CountOf(rows, S) >= 90 /\ Spread(rows, S)) => EntriesFor(call.ret, y) # {}

C8_Witness ==
    /\ call.fn = "calculate_annual_recharge"
    /\ \E y1 \in HydroYears, y2 \in HydroYears :
         LET rows == analytics_df.rows
         IN  /\ CountOf(rows, InHydroYear(rows, y1)) = 90
             /\ EntriesFor(call.ret, y1) # {}
             /\ CountOf(rows, InHydroYear(rows, y2)) = 89
             /\ Spread(rows, InHydroYear(rows, y2))
             /\ EntriesFor(call.ret, y2) = {}

(* C9: every hydrological year with >= 90 samples yields exactly one entry *)
(* with recharge sy * (max - min) and the arithmetic mean of its values    *)
(* when max - min > 0, and none when all its values are equal; entries are *)
(* labelled "Y-(Y+1)" and ordered by year ascending; min 2.0, max 5.0 and  *)
(* sy 0.05 give recharge 0.15.                                             *)
C9_AnnualRechargeEntries ==
    call.fn = "calculate_annual_recharge" =>
        LET rows == analytics_df.rows
            ret == call.ret
        IN  /\ \A y \in HydroYears :
                 LET S == InHydroYear(rows, y)
                     E == EntriesFor(ret, y)
                 IN  /\ Cardinality(E) <= 1
                     /\ (CountOf(rows, S) >= 90 /\ Spread(rows, S)) =>
                          /\ Cardinality(E) = 1
                          /\ \A i \in E :
                               /\ \E lo \in S, hi \in S :
                                    /\ \A k \in S : /\ RLe(rows[lo].value, rows[k].value)
                                                    /\ RLe(rows[k].value, rows[hi].value)
                                    /\ ret[i].Recharge_m =
                                         RMul(call.sy, RSub(rows[hi].value, rows[lo].value))
                                    /\ (rows[lo].value = R(2) /\ rows[hi].value = R(5)
                                          /\ call.sy = Rat(5, 100))
                                         => ret[i].Recharge_m = Rat(15, 100)
                               /\ ret[i].Avg_Water_Level_m =
                                    RDiv(TotalOf(rows, S), R(CountOf(rows, S)))
                     /\ (CountOf(rows, S) >= 90 /\ ~Spread(rows, S)) => E = {}
            /\ \A i \in DOMAIN ret : \E y \in HydroYears : i \in EntriesFor(ret, y)
            /\ \A i \in DOMAIN ret, j \in DOMAIN ret :
                 \A y1 \in HydroYears, y2 \in HydroYears :
                    (i < j /\ i \in EntriesFor(ret, y1) /\ j \in EntriesFor(ret, y2)) => y1 < y2

C9_Witness ==
    /\ call.fn = "calculate_annual_recharge"
    /\ call.sy = Rat(5, 100)
    /\ Len(call.ret) = 2
    /\ call.ret[1].Year = "2022-2023"
    /\ call.ret[2].Year = "2023-2024"
    /\ call.ret[1].Recharge_m = Rat(15, 100)

LastYearMonth(rows, month) ==
    {i \in DOMAIN rows : /\ rows[i].date.month = month
                         /\ \A j \in DOMAIN rows : rows[j].date.year <= rows[i].date.year}

MeanOf(rows, S) == RDiv(TotalOf(rows, S), R(CountOf(rows, S)))

(* C10: for a non-empty series get_monsoon_rise returns delta_h =          *)
(* max(0, mean of the May samples - mean of the November samples) of the   *)
(* most recent calendar year present, and 0 if that year lacks May or      *)
(* November samples; delta_h is never negative.                            *)
C10_MonsoonRise ==
    (call.fn = "get_monsoon_rise" /\ historical_df # None) =>
        LET rows == historical_df.rows
            May == LastYearMonth(rows, 5)
            Nov == LastYearMonth(rows, 11)
        IN  /\ RLe(Zero, call.ret[1])
            /\ (May = {} \/ Nov = {}) => call.ret[1] = Zero
            /\ (May # {} /\ Nov # {}) =>
                 call.ret[1] = RMax(Zero, RSub(MeanOf(rows, May), MeanOf(rows, Nov)))

C10_Witness ==
    /\ call.fn = "get_monsoon_rise"
    /\ historical_df # None
    /\ LET rows == historical_df.rows
       IN  /\ LastYearMonth(rows, 11) = {}
           /\ \E i \in DOMAIN rows, j \in DOMAIN rows :
                /\ rows[i].date.year = rows[j].date.year
                /\ rows[i].date.month = 5 /\ rows[j].date.month = 11
                /\ RLt(rows[j].value, rows[i].value)
    /\ call.ret[1] = Zero

IsLatest(rows, i) == \A j \in DOMAIN rows : DateKey(rows[j].date) <= DateKey(rows[i].date)

(* C11: for a non-empty series the latest_level that get_monsoon_rise      *)
(* returns is the value of a sample of the latest date, on the normal      *)
(* branch and on the missing-month branch alike.                           *)
C11_LatestLevel ==
    (call.fn = "get_monsoon_rise" /\ historical_df # None) =>
        \E i \in DOMAIN historical_df.rows :
            /\ IsLatest(historical_df.rows, i)
            /\ call.ret[2] = historical_df.rows[i].value

C11_Witness ==
    /\ call.fn = "get_monsoon_rise"
    /\ historical_df # None
    /\ LET rows == historical_df.rows
       IN  /\ LastYearMonth(rows, 5) = {}
           /\ \E i \in DOMAIN rows, j \in DOMAIN rows :
                /\ IsLatest(rows, i) /\ ~IsLatest(rows, j)
                /\ rows[i].value # rows[j].value
                /\ \A k \in DOMAIN rows : IsLatest(rows, k) => rows[k].value = rows[i].value
                /\ call.ret[2] = rows[i].value

----------------------------------------------------------------------------
(* pages/2_R_DSS.py: session state and the balance of the main flow *)

policy_inputs ==
    [recharge_canals |-> R(0), recharge_swi |-> R(0), recharge_gwi |-> R(0),
     recharge_tanks |-> R(0), recharge_artificial |-> R(0),
     draft_irrigation |-> R(1000000), draft_industrial |-> R(500000),
     draft_domestic |-> R(500000), evaporation |-> R(3), transpiration |-> R(2)]

defaults == [base_daily_pumping |-> R(1500)]

DefaultOf(key) == IF key \in DOMAIN policy_inputs THEN policy_inputs[key] ELSE defaults[key]

(* for key, value in {**policy_inputs, **defaults}.items():                *)
(*     if key not in st.session_state: st.session_state[key] = value       *)
initialize_session_state_overwrite(ss) ==
    [key \in DOMAIN ss \cup DOMAIN policy_inputs \cup DOMAIN defaults |->
        IF key \in DOMAIN policy_inputs \cup DOMAIN defaults THEN DefaultOf(key) ELSE ss[key]]

initialize_session_state(ss) ==
    [key \in DOMAIN ss \cup DOMAIN policy_inputs \cup DOMAIN defaults |->
        IF key \in DOMAIN ss THEN ss[key] ELSE DefaultOf(key)]

(* the keys k of policy_inputs with 'recharge' in k, and with 'draft' in k *)
RechargeKeys ==
    {"recharge_canals", "recharge_swi", "recharge_gwi", "recharge_tanks", "recharge_artificial"}

DraftKeys == {"draft_irrigation", "draft_industrial", "draft_domestic"}

RECURSIVE sum_keys(_, _)
sum_keys(ss, keys) ==
    IF keys = {} THEN Zero
    ELSE LET k == CHOOSE x \in keys : TRUE
         IN  RAdd(ss[k], sum_keys(ss, keys \ {k}))

dss_main_flow_et_as_recharge(df, ss, rainfall, rfif, specific_yield, area) ==
    LET pumping == ss["base_daily_pumping"]
        rise == get_monsoon_rise(df)
        delta_h == rise[1]
        latest_level == rise[2]
        base_recharge_wtf == calculate_recharge_wtf(delta_h, area, specific_yield)
        base_recharge_rif == calculate_recharge_rif(rainfall, area, rfif)
        base_annual_recharge == calculate_validated_recharge(base_recharge_wtf, base_recharge_rif)
        base_annual_draft == calculate_annual_draft(pumping)
        additional_recharge_bcm == RDiv(sum_keys(ss, RechargeKeys), R(1000000000))
        policy_annual_draft_bcm == RDiv(sum_keys(ss, DraftKeys), R(1000000000))
        et_draft_bcm == calculate_et_draft(ss["evaporation"], ss["transpiration"], area, latest_level)
        final_recharge == RAdd(RAdd(base_annual_recharge, additional_recharge_bcm), et_draft_bcm)
        final_draft == RAdd(base_annual_draft, policy_annual_draft_bcm)
    IN  [delta_h |-> delta_h,
         latest_level |-> latest_level,
         base_recharge_wtf |-> base_recharge_wtf,
         base_recharge_rif |-> base_recharge_rif,
         base_annual_recharge |-> base_annual_recharge,
         base_annual_draft |-> base_annual_draft,
         base_net_availability |->
             calculate_net_groundwater_availability(base_annual_recharge, base_annual_draft),
         base_stage_of_extraction |->
             calculate_stage_of_extraction(base_annual_draft, base_annual_recharge),
         additional_recharge_bcm |-> additional_recharge_bcm,
         policy_annual_draft_bcm |-> policy_annual_draft_bcm,
         et_draft_bcm |-> et_draft_bcm,
         final_recharge |-> final_recharge,
         final_draft |-> final_draft,
         final_net_availability |->
             calculate_net_groundwater_availability(final_recharge, final_draft),
         stage_after |-> calculate_stage_of_extraction(final_draft, final_recharge)]

dss_main_flow(df, ss, rainfall, rfif, specific_yield, area) ==
    LET pumping == ss["base_daily_pumping"]
        rise == get_monsoon_rise(df)
        delta_h == rise[1]
        latest_level == rise[2]
        base_recharge_wtf == calculate_recharge_wtf(delta_h, area, specific_yield)
        base_recharge_rif == calculate_recharge_rif(rainfall, area, rfif)
        base_annual_recharge == calculate_validated_recharge(base_recharge_wtf, base_recharge_rif)
        base_annual_draft == calculate_annual_draft(pumping)
        additional_recharge_bcm == RDiv(sum_keys(ss, RechargeKeys), R(1000000000))
        policy_annual_draft_bcm == RDiv(sum_keys(ss, DraftKeys), R(1000000000))
        et_draft_bcm == calculate_et_draft(ss["evaporation"], ss["transpiration"], area, latest_level)
        final_recharge == RAdd(base_annual_recharge, additional_recharge_bcm)
        final_draft == RAdd(RAdd(base_annual_draft, policy_annual_draft_bcm), et_draft_bcm)
    IN  [delta_h |-> delta_h,
         latest_level |-> latest_level,
         base_recharge_wtf |-> base_recharge_wtf,
         base_recharge_rif |-> base_recharge_rif,
         base_annual_recharge |-> base_annual_recharge,
         base_annual_draft |-> base_annual_draft,
         base_net_availability |->
             calculate_net_groundwater_availability(base_annual_recharge, base_annual_draft),
         base_stage_of_extraction |->
             calculate_stage_of_extraction(base_annual_draft, base_annual_recharge),
         additional_recharge_bcm |-> additional_recharge_bcm,
         policy_annual_draft_bcm |-> policy_annual_draft_bcm,
         et_draft_bcm |-> et_draft_bcm,
         final_recharge |-> final_recharge,
         final_draft |-> final_draft,
         final_net_availability |->
             calculate_net_groundwater_availability(final_recharge, final_draft),
         stage_after |-> calculate_stage_of_extraction(final_draft, final_recharge)]

(* The session keys of the intervention sliders: f'{lever}_{user_type}'.    *)
child_keys ==
    [researcher |->
     [recharge_canals |-> "recharge_canals_researcher",
      recharge_swi |-> "recharge_swi_researcher",
      recharge_gwi |-> "recharge_gwi_researcher",
      recharge_tanks |-> "recharge_tanks_researcher",
      recharge_artificial |-> "recharge_artificial_researcher",
      draft_irrigation |-> "draft_irrigation_researcher",
      draft_industrial |-> "draft_industrial_researcher",
      draft_domestic |-> "draft_domestic_researcher",
      evaporation |-> "evaporation_researcher",
      transpiration |-> "transpiration_researcher"],
     policy_maker |->
     [recharge_canals |-> "recharge_canals_policy_maker",
      recharge_swi |-> "recharge_swi_policy_maker",
      recharge_gwi |-> "recharge_gwi_policy_maker",
      recharge_tanks |-> "recharge_tanks_policy_maker",
      recharge_artificial |-> "recharge_artificial_policy_maker",
      draft_irrigation |-> "draft_irrigation_policy_maker",
      draft_industrial |-> "draft_industrial_policy_maker",
      draft_domestic |-> "draft_domestic_policy_maker"],
     planner |->
     [recharge_canals |-> "recharge_canals_planner",
      recharge_swi |-> "recharge_swi_planner",
      recharge_gwi |-> "recharge_gwi_planner",
      recharge_tanks |-> "recharge_tanks_planner",
      recharge_artificial |-> "recharge_artificial_planner",
      draft_irrigation |-> "draft_irrigation_planner",
      draft_industrial |-> "draft_industrial_planner",
      draft_domestic |-> "draft_domestic_planner"]]

UserTypes == <<"researcher", "policy_maker", "planner">>

(* the levers render_intervention_view shows to a user type *)
Levers(user_type) == DOMAIN child_keys[user_type]

ChildKey(lever, user_type) == child_keys[user_type][lever]

(* st.slider(..., value = st.session_state[lever], key = child key): a     *)
(* slider that has no state yet takes the master value; one that has keeps *)
(* its own.                                                                *)
render_sliders(ss, user_type) ==
    LET added == {ChildKey(lever, user_type) : lever \in Levers(user_type)} \ DOMAIN ss
        master(key) == CHOOSE lever \in Levers(user_type) : ChildKey(lever, user_type) = key
    IN  [key \in DOMAIN ss \cup added |-> IF key \in DOMAIN ss THEN ss[key] ELSE ss[master(key)]]

(* update_master_state(master_key, child_key)                              *)
update_master_state(ss, master_key, child_key) ==
    [ss EXCEPT ![master_key] = ss[child_key]]

(* line 297: 'well_no' not in st.session_state or it is None *)
no_well_selected_absent_only(ss) == "well_no" \notin DOMAIN ss

no_well_selected(ss) == IF "well_no" \notin DOMAIN ss THEN TRUE ELSE ss["well_no"] = None

(* pages/1_Data_Analytics.py, the Find Well button:                        *)
(* st.session_state['well_no'] = selected_well                             *)
find_well(ss, selected_well) ==
    [key \in DOMAIN ss \cup {"well_no"} |-> IF key = "well_no" THEN selected_well ELSE ss[key]]

(* f"{x:.2f}": x rounded to two decimals (ties to even), by long division. *)
RECURSIVE LongDivision(_, _, _)
(* <<floor(n * 10^digits / d), the remainder>> for n >= 0, d > 0 *)
LongDivision(n, d, digits) ==
    IF digits = 0 THEN <<n \div d, n % d>>
    ELSE LET p == LongDivision(n, d, digits - 1)
         IN  <<p[1] * 10 + ((p[2] * 10) \div d), (p[2] * 10) % d>>

Format2(x) ==
    LET p == LongDivision(Abs(x.n), x.d, 2)
        up == 2 * p[2] > x.d \/ (2 * p[2] = x.d /\ p[1] % 2 = 1)
        hundredths == IF up THEN p[1] + 1 ELSE p[1]
    IN  Rat((IF x.n < 0 THEN -1 ELSE 1) * hundredths, 100)

DaysInMonth(year, month) ==
    IF month = 2 THEN (IF IsLeap(year) THEN 29 ELSE 28)
    ELSE IF month \in {4, 6, 9, 11} THEN 30 ELSE 31

(* date + pd.DateOffset(months = k): the day is clipped to the month's end *)
DateOffset(date, months) ==
    LET m0 == (date.month - 1) + months
        year == date.year + (m0 \div 12)
        month == (m0 % 12) + 1
        last == DaysInMonth(year, month)
    IN  [year |-> year, month |-> month, day |-> IF date.day > last THEN last ELSE date.day]

(* lines 357-371: the forecast section binds forecast_date_main (and the   *)
(* figure) only when there is a history; otherwise it warns.               *)
forecast_date_main(df) ==
    IF df # None /\ df.rows # <<>>
    THEN DateOffset(df.rows[Len(df.rows)].date, 3)
    ELSE Unbound

NameError(name) == [kind |-> "NameError", name |-> name]

AllTabs == <<"farmer", "researcher", "policy_maker", "planner">>

(* lines 520-525: the impact panel of render_intervention_view *)
impact_panel_unclamped(main) ==
    LET display_net_availability == main.final_net_availability
    IN  [projected_net_availability_mcm |-> Format2(RMul(display_net_availability, R(1000))),
         projected_net_availability_delta |->
             Format2(RMul(RSub(main.final_net_availability, main.base_net_availability),
                          R(1000))),
         projected_stage_of_extraction |-> Format2(main.stage_after),
         rec_text |-> get_recommendation(main.stage_after)[1]]

impact_panel(main) ==
    LET display_net_availability == RMax(Zero, main.final_net_availability)
    IN  [projected_net_availability_mcm |-> Format2(RMul(display_net_availability, R(1000))),
         projected_net_availability_delta |->
             Format2(RMul(RSub(main.final_net_availability, main.base_net_availability),
                          R(1000))),
         projected_stage_of_extraction |-> Format2(main.stage_after),
         rec_text |-> get_recommendation(main.stage_after)[1]]

(* lines 546-547 *)
dss_outputs(main) ==
    [projected_net_availability_MCM |->
         Format2(RMul(RMax(Zero, main.final_net_availability), R(1000))),
     projected_stage_of_extraction_percent |->
         Format2(calculate_stage_of_extraction(main.final_draft, main.final_recharge))]

(* lines 353-574: the forecast section and the four tabs, in the order the *)
(* script renders them.  The researcher tab's download section reads       *)
(* forecast_date_main (line 536): when the forecast section has not bound  *)
(* it the run ends there with a NameError and the tabs after it are not    *)
(* rendered.                                                               *)
render_page(df, main, area, specific_yield) ==
    LET available == df # None /\ df.rows # <<>>
    IN  [warning |-> IF available THEN None
                     ELSE [kind |-> "warning",
                           text |-> "Historical data not available for this well."],
         forecasted_level_main |->
             forecasted_level_main(df, main.latest_level, main.final_net_availability,
                                   area, specific_yield),
         forecast_date_main |-> forecast_date_main(df),
         custom_forecast |->
             forecasted_level(main.latest_level, main.final_net_availability, area,
                              specific_yield, 3),
         impact |-> impact_panel(main),
         dss_outputs |-> IF available THEN dss_outputs(main) ELSE Unbound,
         raised |-> IF available THEN None ELSE NameError("forecast_date_main"),
         tabs |-> IF available THEN AllTabs ELSE <<"farmer">>,
         sliders |-> IF available THEN UserTypes ELSE <<"researcher">>]

RECURSIVE render_all_sliders(_, _)
render_all_sliders(ss, user_types) ==
    IF user_types = <<>> THEN ss
    ELSE render_all_sliders(render_sliders(ss, Head(user_types)), Tail(user_types))

MaxRowsBalance == 1
MaxChangedLevers == 1

LeverValues(key) ==
    IF key = "evaporation" THEN {R(3), R(12)}
    ELSE IF key = "transpiration" THEN {R(2), R(10)}
    ELSE IF key = "base_daily_pumping" THEN {R(1500), R(5000)}
    ELSE {R(0), R(2000000)}

BalanceRowTypes ==
    {[date |-> [year |-> 2023, month |-> 5, day |-> 15], value |-> R(5), n |-> 1],
     [date |-> [year |-> 2023, month |-> 11, day |-> 15], value |-> R(2), n |-> 1],
     [date |-> [year |-> 2023, month |-> 11, day |-> 15], value |-> R(5), n |-> 1]}

BalanceRainfalls == {R(0), R(1200)}
BalanceRfifs == {Rat(15, 100)}
BalanceSpecificYields == {Rat(12, 100)}
BalanceAreas == {R(10000)}

Wells == {[kind |-> "well", no |-> 1]}

(* The sliders moved in the runs explored: every lever in the researcher   *)
(* tab, and two levers in the other tabs as well.                          *)
MovedSliders ==
    {<<lever, "researcher">> : lever \in Levers("researcher")}
        \cup {<<"recharge_tanks", "policy_maker">>, <<"recharge_tanks", "planner">>,
              <<"draft_domestic", "planner">>}

(* the levers whose master value or whose slider in some tab is off the    *)
(* default                                                                 *)
ChangedLevers(ss) ==
    {lever \in (DOMAIN policy_inputs \cup DOMAIN defaults) \cap DOMAIN ss :
        \/ ss[lever] # DefaultOf(lever)
        \/ \E i \in DOMAIN UserTypes :
              /\ lever \in Levers(UserTypes[i])
              /\ ChildKey(lever, UserTypes[i]) \in DOMAIN ss
              /\ ss[ChildKey(lever, UserTypes[i])] # DefaultOf(lever)}

(* pages/1_Data_Analytics.py: Find Well stores the selected well (None     *)
(* when the block lists no well).                                          *)
SelectWell ==
    /\ \E selected_well \in Wells \cup {None} :
          /\ session_state' = find_well(session_state, selected_well)
          /\ call' = [fn |-> "find_well", selected_well |-> selected_well]
    /\ UNCHANGED <<historical_df, analytics_df, cache>>

(* A run of the page with no well selected: the defaults are written, the  *)
(* notice is shown and the script ends.                                    *)
NoWellRun ==
    /\ no_well_selected(initialize_session_state(session_state))
    /\ session_state' = initialize_session_state(session_state)
    /\ call' = [fn |-> "dss_page",
                info |-> "Please select a well from the 'Data Analytics' dashboard first"]
    /\ UNCHANGED <<historical_df, analytics_df, cache>>

(* A run of the page down to the fetch: the defaults are written, then the *)
(* history of the selected well is fetched.                                *)
StartRun ==
    /\ ~ no_well_selected(initialize_session_state(session_state))
    /\ session_state' = initialize_session_state(session_state)
    /\ "dss" \notin cache
    /\ \/ \E kind \in FailureKinds :
              /\ historical_df' = get_full_well_history(Reply(kind, <<>>))
              /\ call' = [fn |-> "get_full_well_history", reply_kind |-> kind, reply_rows |-> 0]
       \/ \E k \in 0..MaxRowsBalance : \E data \in [1..k -> BalanceRowTypes] :
              /\ historical_df' = get_full_well_history(Reply("data", data))
              /\ call' = [fn |-> "get_full_well_history", reply_kind |-> "data",
                          reply_rows |-> Len(data)]
    /\ cache' = cache \cup {"dss"}
    /\ UNCHANGED analytics_df

(* A lever slider of a tab is moved: its key takes the new value and the   *)
(* on_change callback update_master_state copies it to the master key.     *)
UpdateMasterState ==
    /\ ~ no_well_selected(session_state)
    /\ \E slider \in MovedSliders :
         LET master_key == slider[1]
             child_key == ChildKey(slider[1], slider[2])
         IN  /\ child_key \in DOMAIN session_state
             /\ \E value \in LeverValues(master_key) \ {session_state[child_key]} :
                  LET moved == [session_state EXCEPT ![child_key] = value]
                  IN  /\ session_state' = update_master_state(moved, master_key, child_key)
                      /\ Cardinality(ChangedLevers(session_state')) <= MaxChangedLevers
                      /\ call' = [fn |-> "update_master_state", master_key |-> master_key,
                                  child_key |-> child_key, value |-> value]
    /\ UNCHANGED <<historical_df, analytics_df, cache>>

(* The pumping slider is keyed by the master key itself (line 330).        *)
PumpingSlider ==
    /\ ~ no_well_selected(session_state)
    /\ ChildKey("recharge_canals", "researcher") \in DOMAIN session_state
    /\ \E value \in LeverValues("base_daily_pumping") \ {session_state["base_daily_pumping"]} :
          /\ session_state' = [session_state EXCEPT !["base_daily_pumping"] = value]
          /\ Cardinality(ChangedLevers(session_state')) <= MaxChangedLevers
          /\ call' = [fn |-> "slider", key |-> "base_daily_pumping", value |-> value]
    /\ UNCHANGED <<historical_df, analytics_df, cache>>

(* A run of the page with the history in the cache: the defaults are       *)
(* written where absent, the balance is computed from the master values,   *)
(* then the forecast section and the tabs are rendered.                    *)
Balance ==
    /\ "dss" \in cache
    /\ ~ no_well_selected(initialize_session_state(session_state))
    /\ \E rainfall \in BalanceRainfalls, rfif \in BalanceRfifs,
          specific_yield \in BalanceSpecificYields, area \in BalanceAreas :
         LET ss == initialize_session_state(session_state)
             main == dss_main_flow(historical_df, ss, rainfall, rfif, specific_yield, area)
             page == render_page(df_after_get_monsoon_rise(historical_df), main, area,
                                 specific_yield)
         IN  /\ call' = [fn |-> "dss_main_flow", rainfall |-> rainfall, rfif |-> rfif,
                         specific_yield |-> specific_yield, area |-> area,
                         out |-> main, page |-> page]
             /\ session_state' = render_all_sliders(ss, page.sliders)
    /\ historical_df' = df_after_get_monsoon_rise(historical_df)
    /\ UNCHANGED <<analytics_df, cache>>

NextBalance ==
    \/ SelectWell
    \/ NoWellRun
    \/ StartRun
    \/ UpdateMasterState
    \/ PumpingSlider
    \/ Balance

SpecBalance == Init /\ [][NextBalance]_vars

(* C12: when the well series is absent, the run reports the monsoon rise,  *)
(* the latest level, the ET draft, the recharge, the draft and the stage   *)
(* of extraction as not computable instead of computing them from zeros.   *)
C12_AbsentSeriesNotComputable ==
    (call.fn = "dss_main_flow" /\ historical_df = None) =>
        /\ call.out.delta_h = None
        /\ call.out.latest_level = None
        /\ call.out.et_draft_bcm = None
        /\ call.out.final_recharge = None
        /\ call.out.final_draft = None
        /\ call.out.stage_after = None

(* C13: a failed fetch never yields the value that an empty but valid      *)
(* series yields.                                                          *)
C13_FailureDistinguishable ==
    (call.fn = "get_full_well_history" /\ call.reply_kind \in FailureKinds) =>
        historical_df # get_full_well_history(Reply("data", <<>>))

(* C14: the planner tab's status of the post-project stage is Sustainable  *)
(* below 70, Semi-critical from 70 to 90, Critical above 90 up to 100 and  *)
(* Non-sustainable above 100; every stage falls in exactly one band.       *)
C14_ProjectClassification ==
    (call.fn = "render_sustainability_assessment") =>
        LET s == call.out.new_stage
            status == call.out.status_display
        IN  /\ status \in {"Sustainable", "Semi-critical", "Critical", "Non-sustainable"}
            /\ (status = "Sustainable") <=> RLt(s, R(70))
            /\ (status = "Semi-critical") <=> (RLe(R(70), s) /\ RLe(s, R(90)))
            /\ (status = "Critical") <=> (RLt(R(90), s) /\ RLe(s, R(100)))
            /\ (status = "Non-sustainable") <=> RLt(R(100), s)

C14_Witness ==
    /\ call.fn = "render_sustainability_assessment"
    /\ call.demand_mcm # Zero
    /\ call.out.new_stage = R(70)
    /\ call.out.status_display = "Semi-critical"

SeverityLevel(category) ==
    IF category \in {"Safe", "Sustainable"} THEN 1
    ELSE IF category = "Semi-critical" THEN 2
    ELSE IF category = "Critical" THEN 3
    ELSE 4

(* C15: on one and the same stage value the primary category and the       *)
(* project status name the same severity level, except at exactly 70,      *)
(* where the primary category is Safe and the project status Semi-critical.*)
C15_ClassifiersDifferOnlyAt70 ==
    (/\ call.fn = "render_sustainability_assessment"
     /\ call.out.new_stage = call.out.stage_after) =>
        /\ (SeverityLevel(call.out.category_before_project)
                = SeverityLevel(call.out.status_display))
             <=> (call.out.new_stage # R(70))
        /\ (call.out.new_stage = R(70)) =>
              /\ call.out.category_before_project = "Safe"
              /\ call.out.status_display = "Semi-critical"

C15_Witness ==
    /\ call.fn = "render_sustainability_assessment"
    /\ call.out.new_stage = call.out.stage_after
    /\ call.out.new_stage = R(70)
    /\ call.out.category_before_project = "Safe"
    /\ call.out.status_display = "Semi-critical"

BothStageCalls ==
    /\ call.fn = "calculate_stage_of_extraction"
    /\ call'.fn = "calculate_stage_of_extraction"
    /\ call'.total_draft_bcm = call.total_draft_bcm
    /\ RLe(Zero, call.total_draft_bcm)
    /\ RLe(call.annual_recharge_bcm, call'.annual_recharge_bcm)

(* C16 as stated: with the draft fixed and not negative, the stage never   *)
(* increases when the recharge increases.                                  *)
C16_StageNeverIncreases ==
    [][BothStageCalls => RLe(call'.ret, call.ret)]_vars

(* C16 as amended: with the draft fixed and not negative, the stage does   *)
(* not increase when the recharge increases, provided both recharges are   *)
(* positive, or both are not, or the draft is at most twice the positive   *)
(* recharge; and the sentinel of a recharge that is not positive is 200,   *)
(* which get_recommendation ranks Over-Exploited.                          *)
C16_StageOrderingAmended ==
    [][(/\ BothStageCalls
        /\ \/ RLt(Zero, call.annual_recharge_bcm)
           \/ RLe(call'.annual_recharge_bcm, Zero)
           \/ RLe(call'.total_draft_bcm, RMul(R(2), call'.annual_recharge_bcm)))
       => /\ RLe(call'.ret, call.ret)
          /\ RLe(call.annual_recharge_bcm, Zero) => call.ret = R(200)]_vars

C16_Witness ==
    /\ call.fn = "calculate_stage_of_extraction"
    /\ RLt(Zero, call.annual_recharge_bcm)
    /\ RLt(R(200), call.ret)

(* C17: with a rainfall-infiltration estimate of 0 the validated recharge  *)
(* is the water-table-fluctuation estimate itself, whatever its sign.      *)
C17_ZeroRifReturnsWtf ==
    (call.fn = "calculate_validated_recharge" /\ call.recharge_rif = Zero) =>
        call.ret = call.recharge_wtf

C17_Witness ==
    /\ call.fn = "calculate_validated_recharge"
    /\ call.recharge_rif = Zero
    /\ RLt(call.recharge_wtf, Zero)
    /\ call.ret = call.recharge_wtf

NonNegativeArgs(c) ==
    /\ RLe(Zero, c.delta_h)
    /\ RLe(Zero, c.area_ha)
    /\ RLe(Zero, c.specific_yield)

(* the second call raises one argument, or none, and keeps the other two   *)
OneArgumentRaised(c, d) ==
    \/ /\ RLe(c.delta_h, d.delta_h)
       /\ c.area_ha = d.area_ha
       /\ c.specific_yield = d.specific_yield
    \/ /\ c.delta_h = d.delta_h
       /\ RLe(c.area_ha, d.area_ha)
       /\ c.specific_yield = d.specific_yield
    \/ /\ c.delta_h = d.delta_h
       /\ c.area_ha = d.area_ha
       /\ RLe(c.specific_yield, d.specific_yield)

(* C20: on arguments that are not negative, calculate_recharge_wtf is not  *)
(* negative and does not decrease when one argument is raised with the     *)
(* other two held fixed.                                                   *)
C20_WtfMonotone ==
    [][(call'.fn = "calculate_recharge_wtf" /\ NonNegativeArgs(call')) =>
          /\ RLe(Zero, call'.ret)
          /\ (/\ call.fn = "calculate_recharge_wtf"
              /\ NonNegativeArgs(call)
              /\ OneArgumentRaised(call, call')) => RLe(call.ret, call'.ret)]_vars

C20_Witness ==
    /\ call.fn = "calculate_recharge_wtf"
    /\ RLt(Zero, call.delta_h)
    /\ RLt(Zero, call.area_ha)
    /\ RLt(Rat(1, 100), call.specific_yield)
    /\ RLt(Zero, call.ret)

Bcm(volume_m3) == RDiv(volume_m3, R(1000000000))

(* C19: in a run, the final draft is pumping * 365 / 1e9 plus the three    *)
(* draft volumes / 1e9 plus the ET draft; the final recharge is the        *)
(* validated recharge plus the five intervention volumes / 1e9; the net    *)
(* availability is their difference, unclamped; the projected stage is     *)
(* calculate_stage_of_extraction of the two.                               *)
C19_RunBalance ==
    (call.fn = "dss_main_flow") =>
        LET o == call.out
            ss == session_state
            draft_levers == RAdd(RAdd(ss["draft_irrigation"], ss["draft_industrial"]),
                                 ss["draft_domestic"])
            recharge_levers ==
                RAdd(RAdd(RAdd(RAdd(ss["recharge_canals"], ss["recharge_swi"]),
                               ss["recharge_gwi"]), ss["recharge_tanks"]),
                     ss["recharge_artificial"])
        IN  /\ o.base_annual_draft = Bcm(RMul(ss["base_daily_pumping"], R(365)))
            /\ (ss["base_daily_pumping"] = R(1500)) => o.base_annual_draft = Rat(5475, 10000000)
            /\ o.et_draft_bcm = calculate_et_draft(ss["evaporation"], ss["transpiration"],
                                                   call.area, o.latest_level)
            /\ o.final_draft = RAdd(RAdd(o.base_annual_draft, Bcm(draft_levers)), o.et_draft_bcm)
            /\ o.base_annual_recharge =
                   calculate_validated_recharge(
                       calculate_recharge_wtf(o.delta_h, call.area, call.specific_yield),
                       calculate_recharge_rif(call.rainfall, call.area, call.rfif))
            /\ o.final_recharge = RAdd(o.base_annual_recharge, Bcm(recharge_levers))
            /\ o.final_net_availability = RSub(o.final_recharge, o.final_draft)
            /\ o.stage_after = calculate_stage_of_extraction(o.final_draft, o.final_recharge)

C19_Witness ==
    /\ call.fn = "dss_main_flow"
    /\ historical_df # None
    /\ session_state["recharge_tanks"] = R(2000000)
    /\ session_state["base_daily_pumping"] = R(1500)
    /\ call.out.base_annual_draft = Rat(5475, 10000000)
    /\ RLt(Zero, call.out.et_draft_bcm)
    /\ RLt(call.out.final_net_availability, Zero)

DryWindow(rows) ==
    {i \in DOMAIN rows :
        LET last_year == CHOOSE y \in {rows[j].date.year : j \in DOMAIN rows} :
                             \A j \in DOMAIN rows : rows[j].date.year <= y
        IN  \/ rows[i].date.year = last_year - 1 /\ rows[i].date.month >= 10
            \/ rows[i].date.year = last_year /\ rows[i].date.month <= 5}

RECURSIVE Moment(_, _, _, _)
(* the sum over the samples of S of (ordinal - x0)^p * value^q, a rational *)
Moment(rows, S, x0, pq) ==
    IF S = {} THEN Zero
    ELSE LET i == CHOOSE j \in S : TRUE
             dx == toordinal(rows[i].date) - x0
             xp == IF pq[1] = 0 THEN 1 ELSE IF pq[1] = 1 THEN dx ELSE dx * dx
             yq == IF pq[2] = 0 THEN R(1) ELSE rows[i].value
         IN  RAdd(RMul(R(rows[i].n * xp), yq), Moment(rows, S \ {i}, x0, pq))

(* the numerator and the denominator of the least-squares slope of value   *)
(* against ordinal over the samples of S: N Sxy - Sx Sy and N Sxx - Sx Sx  *)
SlopeNum(rows, S, x0) ==
    RSub(RMul(Moment(rows, S, x0, <<0, 0>>), Moment(rows, S, x0, <<1, 1>>)),
         RMul(Moment(rows, S, x0, <<1, 0>>), Moment(rows, S, x0, <<0, 1>>)))

SlopeDen(rows, S, x0) ==
    RSub(RMul(Moment(rows, S, x0, <<0, 0>>), Moment(rows, S, x0, <<2, 0>>)),
         RMul(Moment(rows, S, x0, <<1, 0>>), Moment(rows, S, x0, <<1, 0>>)))

(* C18: calculate_decline_rate returns None for an absent series, for one  *)
(* of fewer than 12 samples and for one with fewer than 2 samples in the   *)
(* dry-season window; otherwise it returns the least-squares slope over    *)
(* the window if that is positive and 0 if not, never a negative number.   *)
C18_DeclineRate ==
    (call.fn = "calculate_decline_rate") =>
        IF historical_df = None THEN call.ret = None
        ELSE LET rows == historical_df.rows
                 W == DryWindow(rows)
             IN  IF CountOf(rows, DOMAIN rows) < 12 \/ CountOf(rows, W) < 2
                 THEN call.ret = None
                 ELSE LET x0 == toordinal(rows[CHOOSE i \in W : TRUE].date)
                          num == SlopeNum(rows, W, x0)
                          den == SlopeDen(rows, W, x0)
                      IN  /\ call.ret # None
                          /\ RLe(Zero, call.ret)
                          /\ RLt(Zero, den) =>
                                call.ret = RMax(Zero, RDiv(num, den))

C18_Witness ==
    /\ call.fn = "calculate_decline_rate"
    /\ historical_df # None
    /\ call.ret # None
    /\ RLt(Zero, call.ret)
    /\ \E i, j \in DryWindow(historical_df.rows) :
          /\ toordinal(historical_df.rows[i].date) < toordinal(historical_df.rows[j].date)
          /\ RLt(historical_df.rows[i].value, historical_df.rows[j].value)

C18_WitnessClamped ==
    /\ call.fn = "calculate_decline_rate"
    /\ historical_df # None
    /\ call.ret = Zero
    /\ \E i, j \in DryWindow(historical_df.rows) :
          /\ toordinal(historical_df.rows[i].date) < toordinal(historical_df.rows[j].date)
          /\ RLt(historical_df.rows[j].value, historical_df.rows[i].value)

C18_WitnessWindowShort ==
    /\ call.fn = "calculate_decline_rate"
    /\ historical_df # None
    /\ CountOf(historical_df.rows, DOMAIN historical_df.rows) >= 12
    /\ CountOf(historical_df.rows, DryWindow(historical_df.rows)) = 1
    /\ call.ret = None

(* C21: a call of get_monsoon_rise, calculate_decline_rate or              *)
(* calculate_annual_recharge leaves the series the caller passed as it     *)
(* was: same samples, same order, same fields.                             *)
C21_SeriesReadOnly ==
    [][(call'.fn \in {"get_monsoon_rise", "calculate_decline_rate",
                      "calculate_annual_recharge"}) =>
          /\ historical_df' = historical_df
          /\ analytics_df' = analytics_df]_vars

(* C22: for a rainfall-infiltration estimate above 0 the validated         *)
(* recharge lies between 0.8 and 1.2 times that estimate, whatever the     *)
(* water-table-fluctuation estimate is.                                    *)
C22_WithinTwentyPercent ==
    (call.fn = "calculate_validated_recharge" /\ RLt(Zero, call.recharge_rif)) =>
        /\ RLe(RMul(Rat(8, 10), call.recharge_rif), call.ret)
        /\ RLe(call.ret, RMul(Rat(12, 10), call.recharge_rif))

C22_Witness ==
    /\ call.fn = "calculate_validated_recharge"
    /\ RLt(Zero, call.recharge_rif)
    /\ RLt(call.recharge_rif, call.recharge_wtf)
    /\ call.ret = call.recharge_wtf

(* C26: for a project demand that is not negative, the stage after the     *)
(* project is not below the stage before it; the two are equal when the    *)
(* demand is 0 or the final recharge is not positive (both 200); the       *)
(* remaining surplus is max(0, 0.9975 * net availability in MCM - demand)  *)
(* and never negative.                                                     *)
C26_ProjectAssessment ==
    (call.fn = "render_sustainability_assessment" /\ RLe(Zero, call.demand_mcm)) =>
        LET o == call.out
            net_mcm == RMul(RSub(call.final_recharge, call.final_draft), R(1000))
            future_use == RMul(Rat(9975, 10000), net_mcm)
        IN  /\ RLe(o.stage_after, o.new_stage)
            /\ (call.demand_mcm = Zero) => o.new_stage = o.stage_after
            /\ RLe(call.final_recharge, Zero) =>
                  (o.new_stage = R(200) /\ o.stage_after = R(200))
            /\ RLe(Zero, o.remaining_surplus)
            /\ o.remaining_surplus =
                   (IF RLt(call.demand_mcm, future_use)
                    THEN RSub(future_use, call.demand_mcm) ELSE Zero)

C26_Witness ==
    /\ call.fn = "render_sustainability_assessment"
    /\ RLt(Zero, call.demand_mcm)
    /\ RLt(Zero, call.final_recharge)
    /\ RLt(call.out.stage_after, call.out.new_stage)
    /\ RLt(Zero, call.out.remaining_surplus)

(* C23: with a well selected and no history available, a run shows the     *)
(* warning and renders the four tabs to completion without raising.        *)
C23_UnavailableHistoryRendersAllTabs ==
    (call.fn = "dss_main_flow" /\ historical_df = None) =>
        /\ call.page.warning # None
        /\ call.page.raised = None
        /\ call.page.tabs = <<"farmer", "researcher", "policy_maker", "planner">>

MasterKeys == DOMAIN policy_inputs \cup DOMAIN defaults

RunSteps == {"dss_page", "get_full_well_history", "dss_main_flow"}

(* C24: a slider change sets the lever's master value to the slider's new  *)
(* value and leaves every other master value; no run overwrites a value    *)
(* session state already holds; the balance of a run is computed from the  *)
(* master values.                                                          *)
C24_MasterValues ==
    [][/\ (call'.fn = "update_master_state") =>
             /\ session_state'[call'.child_key] = call'.value
             /\ session_state'[call'.master_key] = call'.value
             /\ \A key \in MasterKeys \ {call'.master_key} :
                    session_state'[key] = session_state[key]
       /\ (call'.fn \in RunSteps) =>
             \A key \in DOMAIN session_state : session_state'[key] = session_state[key]
       /\ (call'.fn = "dss_main_flow") =>
             LET ss == session_state'
                 o == call'.out
             IN  /\ o.additional_recharge_bcm =
                        Bcm(RAdd(RAdd(RAdd(RAdd(ss["recharge_canals"], ss["recharge_swi"]),
                                           ss["recharge_gwi"]), ss["recharge_tanks"]),
                                 ss["recharge_artificial"]))
                 /\ o.policy_annual_draft_bcm =
                        Bcm(RAdd(RAdd(ss["draft_irrigation"], ss["draft_industrial"]),
                                 ss["draft_domestic"]))
                 /\ o.base_annual_draft = Bcm(RMul(ss["base_daily_pumping"], R(365)))
                 /\ o.et_draft_bcm =
                        calculate_et_draft(ss["evaporation"], ss["transpiration"],
                                           call'.area, o.latest_level)]_vars

C24_Witness ==
    IF call.fn # "dss_main_flow" THEN FALSE
    ELSE IF "recharge_tanks_planner" \notin DOMAIN session_state THEN FALSE
    ELSE /\ session_state["recharge_tanks_planner"] = R(2000000)
         /\ session_state["recharge_tanks"] = R(2000000)
         /\ session_state["recharge_tanks_researcher"] = R(0)
         /\ call.out.additional_recharge_bcm = Rat(2, 1000)

WellInSession(ss) ==
    IF "well_no" \in DOMAIN ss THEN ss["well_no"] \in Wells ELSE FALSE

(* C25: a run with no well in session state shows the notice and neither   *)
(* fetches a history nor computes a balance; a fetch or a balance happens  *)
(* only with a well stored in session state.                               *)
C25_NoWellNoBalance ==
    [][/\ (call'.fn = "dss_page") =>
             /\ ~ WellInSession(session_state')
             /\ "info" \in DOMAIN call'
             /\ historical_df' = historical_df
             /\ cache' = cache
       /\ (call'.fn \in {"get_full_well_history", "dss_main_flow"}) =>
             /\ WellInSession(session_state)
             /\ WellInSession(session_state')
       /\ (~ WellInSession(session_state) /\ call'.fn # "find_well") =>
             call'.fn = "dss_page"]_vars

C25_Witness ==
    IF call.fn # "dss_page" THEN FALSE
    ELSE IF "well_no" \notin DOMAIN session_state THEN FALSE
    ELSE session_state["well_no"] = None /\ historical_df = None /\ cache = {}

(* C27: the projected net availability of the impact panel and of the      *)
(* report is max(0, final recharge - final draft) * 1000, shown with two   *)
(* decimals, and never negative, while the net availability of the run is  *)
(* unclamped; when clamping makes it 0 the projected stage is above 100.   *)
C27_ShownNetAvailability ==
    (call.fn = "dss_main_flow") =>
        LET o == call.out
            net == RSub(o.final_recharge, o.final_draft)
            exact == IF RLt(Zero, net) THEN RMul(net, R(1000)) ELSE Zero
            shown == call.page.impact.projected_net_availability_mcm
        IN  /\ o.final_net_availability = net
            /\ RLe(Zero, shown)
            /\ RLe(RSub(shown, exact), Rat(1, 200))
            /\ RLe(RSub(exact, shown), Rat(1, 200))
            /\ (call.page.dss_outputs # Unbound) =>
                   call.page.dss_outputs.projected_net_availability_MCM = shown
            /\ RLt(net, Zero) => (shown = Zero /\ RLt(R(100), o.stage_after))

C27_Witness ==
    /\ call.fn = "dss_main_flow"
    /\ RLt(call.out.final_net_availability, Zero)
    /\ call.page.impact.projected_net_availability_mcm = Zero
    /\ call.page.dss_outputs # Unbound
    /\ call.page.dss_outputs.projected_net_availability_MCM = Zero
    /\ RLt(R(100), call.out.stage_after)

C27_WitnessPositive ==
    /\ call.fn = "dss_main_flow"
    /\ RLt(Zero, call.page.impact.projected_net_availability_mcm)

====
